---- MODULE Spec2Model ----
(***************************************************************************)
(* Model of the bus_server ingestion and aggregation pipeline              *)
(* (bus_server/modules/routes.py, bus_server/modules/data_processing.py,   *)
(* ref_server/ref_server.py).                                              *)
(*                                                                         *)
(* Strings that take part in path building or prefix matching are          *)
(* sequences of one-character strings, so that formatting a partition key  *)
(* and matching an object-store prefix are computed, not assumed.          *)
(***************************************************************************)
EXTENDS Integers, Sequences, FiniteSets, TLC

VARIABLES RUN_LOCALLY, CITIES, store, req, reply

vars == <<RUN_LOCALLY, CITIES, store, req, reply>>

(***************************************************************************)
(* Bounds of the model.                                                    *)
(***************************************************************************)
NumCities == 2      \* K: number of entries of the reference server's CITIES
NumDates == 2       \* requested dates are 2023-10-01 .. 2023-10-<NumDates>
MaxRequests == 2    \* number of /process-request calls in one behaviour
MaxFetch == 1       \* rows of one /cities/{id}/stats answer (ingestion runs)
MaxRecs == 3        \* rows of one stored partition (query runs)
MaxParts == 2       \* partitions in the store (query runs)
MaxComponents == 2  \* components of one duration (conversion runs)
MaxReadErrors == 1  \* files whose read fails during one query

Dates == 1..NumDates
Requests == 1..MaxRequests
CityIds == 0..(NumCities - 1)

\* Country and city names the reference server may hand out.  The second
\* country has the first one as a proper string prefix.
Countries == { <<"C">>, <<"C", "Z">> }
CityNames == { <<"x">>, <<"y">> }

(***************************************************************************)
(* Strings and paths                                                       *)
(***************************************************************************)
Digits == <<"0", "1", "2", "3", "4", "5", "6", "7", "8", "9">>

\* str(requested_date): ISO form YYYY-MM-DD of the d-th day of October 2023.
DateStr(d) ==
    <<"2", "0", "2", "3", "-", "1", "0", "-">>
        \o <<Digits[(d \div 10) + 1], Digits[(d % 10) + 1]>>

IsPrefix(p, s) == Len(p) <= Len(s) /\ SubSeq(s, 1, Len(p)) = p

\* f"{country}/{requested_date}/{city}/data.parquet": the key of a unit's
\* partition.  city_id is an argument of the unit but not part of the key.
PartitionFile(country, d, city_id, city) ==
    country \o <<"/">> \o DateStr(d) \o <<"/">> \o city \o <<"/", "data.parquet">>

(***************************************************************************)
(* Fetcher / transformer                                                   *)
(***************************************************************************)
IsDigit(c) == \E k \in 1..10 : Digits[k] = c
DigitVal(c) == (CHOOSE k \in 1..10 : Digits[k] = c) - 1

\* A character of the class \w of a regular expression.
IsWord(c) ==
    \/ IsDigit(c)
    \/ c \in {"A", "B", "C", "D", "E", "F", "G", "H", "I", "J", "K", "L", "M",
              "N", "O", "P", "Q", "R", "S", "T", "U", "V", "W", "X", "Y", "Z"}
    \/ c \in {"a", "b", "c", "d", "e", "f", "g", "h", "i", "j", "k", "l", "m",
              "n", "o", "p", "q", "r", "s", "t", "u", "v", "w", "x", "y", "z", "_"}

RECURSIVE ScanNum(_, _, _)
ScanNum(s, i, acc) ==
    IF i <= Len(s) /\ IsDigit(s[i])
    THEN ScanNum(s, i + 1, acc * 10 + DigitVal(s[i]))
    ELSE [val |-> acc, next |-> i]

RECURSIVE Pow10(_)
Pow10(k) == IF k = 0 THEN 1 ELSE 10 * Pow10(k - 1)

\* [0-9]+([,.][0-9]+)? at position i, read as the fraction num/den.
Number(s, i) ==
    LET w == ScanNum(s, i, 0)
        hasFrac == IF w.next > i /\ w.next < Len(s)
                   THEN s[w.next] \in {",", "."} /\ IsDigit(s[w.next + 1])
                   ELSE FALSE
        f == IF hasFrac THEN ScanNum(s, w.next + 1, 0) ELSE [val |-> 0, next |-> w.next]
        den == IF hasFrac THEN Pow10(f.next - w.next - 1) ELSE 1
    IN  [ok |-> w.next > i, num |-> w.val * den + f.val, den |-> den, next |-> f.next]

\* One optional "<number><unit>" group of the duration pattern at position i.
Component(s, i, unit) ==
    LET n == Number(s, i)
        found == IF n.ok /\ n.next <= Len(s) THEN s[n.next] = unit ELSE FALSE
    IN  IF found
        THEN [num |-> n.num, den |-> n.den, next |-> n.next + 1]
        ELSE [num |-> 0, den |-> 1, next |-> i]

\* The groups of the duration pattern in their order, "T" standing for the
\* separator, and the seconds that one unit of each adds to the timedelta:
\* weeks, days, hours, minutes and seconds make the timedelta, years and
\* months are kept beside it and are no part of its total_seconds().
Groups == <<"Y", "M", "W", "D", "T", "H", "M", "S">>
SecondsOf == <<0, 0, 604800, 86400, 0, 3600, 60, 1>>

\* The match of group g from the state st = [next, time, num, den]: the
\* position reached, whether the separator was met, and the seconds so far
\* as the fraction num/den.
Group(s, g, st) ==
    IF g = 5
    THEN IF (IF st.next <= Len(s) THEN s[st.next] = "T" ELSE FALSE)
         THEN [st EXCEPT !.next = @ + 1, !.time = TRUE]
         ELSE st
    ELSE IF g > 5 /\ ~st.time
    THEN st
    ELSE LET c == Component(s, st.next, Groups[g])
         IN  [next |-> c.next, time |-> st.time,
              num |-> st.num * c.den + c.num * SecondsOf[g] * st.den,
              den |-> st.den * c.den]

\* The groups from g on, one after the other (the set of one element names
\* the state that group g leaves).
RECURSIVE MatchGroups(_, _, _)
MatchGroups(s, g, st) ==
    IF g > Len(Groups)
    THEN st
    ELSE CHOOSE end \in { MatchGroups(s, g + 1, after) : after \in {Group(s, g, st)} } : TRUE

\* isodate.parse_duration(s).total_seconds() for a non-empty s, as the
\* fraction num/den; ok = FALSE where it raises.  The pattern is
\*   [+-]? P(?!\b) (nY)? (nM)? (nW)? (nD)? (T (nH)? (nM)? (nS)?)? $
parse_duration(s) ==
    LET failed == [ok |-> FALSE, total_seconds |-> [num |-> 0, den |-> 1]]
        p == IF s[1] \in {"+", "-"} THEN 2 ELSE 1
        opens == IF p + 1 <= Len(s) THEN s[p] = "P" /\ IsWord(s[p + 1]) ELSE FALSE
    IN  IF ~opens
        THEN failed
        ELSE CHOOSE d \in
               { IF end.next = Len(s) + 1
                 THEN [ok |-> TRUE,
                       total_seconds |-> [num |-> IF s[1] = "-" THEN 0 - end.num ELSE end.num,
                                          den |-> end.den]]
                 ELSE failed :
                   end \in { MatchGroups(s, 1, [next |-> p + 1, time |-> FALSE,
                                                num |-> 0, den |-> 1]) } } : TRUE

\* int(x) of a float x = num/den: the fraction is cut off, toward zero.
int(x) == IF x.num >= 0 THEN x.num \div x.den ELSE 0 - ((0 - x.num) \div x.den)

\* A JSON value of the "delay" field and a cell of the "delay" column: an
\* integer, a string, or None.
Secs(n) == [isnum |-> TRUE, isstr |-> FALSE, secs |-> n, text |-> <<>>]
Text(s) == [isnum |-> FALSE, isstr |-> TRUE, secs |-> 0, text |-> s]
None == [isnum |-> FALSE, isstr |-> FALSE, secs |-> 0, text |-> <<>>]

iso_duration_to_seconds(duration_str) ==
    IF ~duration_str.isstr \/ duration_str.text = <<>>
    THEN duration_str
    ELSE LET d == parse_duration(duration_str.text)
         IN  IF d.ok THEN Secs(int(d.total_seconds)) ELSE duration_str

\* Rows the reference service may answer with (the departure time is carried
\* along but read by no operation, and is left out).
PT10M == <<"P", "T", "1", "0", "M">>
PT20M == <<"P", "T", "2", "0", "M">>
Invalid == <<"i", "n", "v", "a", "l", "i", "d">>

RawRecords ==
    { [bus_type |-> "A", passengers |-> 10, accident |-> FALSE, delay |-> Text(PT10M)],
      [bus_type |-> "B", passengers |-> 20, accident |-> TRUE, delay |-> Text(PT20M)],
      [bus_type |-> "A", passengers |-> 5, accident |-> TRUE, delay |-> Text(Invalid)] }

SeqsUpTo(S, n) == UNION { [1..k -> S] : k \in 0..n }

\* gather_city_data after the answer has arrived: an empty frame is returned
\* as it is, otherwise the delay column is converted cell by cell.
gather_city_data(data) ==
    IF data = <<>>
    THEN <<>>
    ELSE [i \in 1..Len(data) |->
            [data[i] EXCEPT !.delay = iso_duration_to_seconds(data[i].delay)]]

(***************************************************************************)
(* Parquet encoding of a frame: one array per column                       *)
(***************************************************************************)
\* pyarrow refuses an object column that mixes integers and strings.
ToParquetRaises(df) ==
    \E i, j \in 1..Len(df) : df[i].delay.isnum /\ ~df[j].delay.isnum

to_parquet(df) ==
    [num_rows |-> Len(df),
     columns |-> IF df = <<>> THEN {} ELSE {"bus-type", "passengers", "accident", "delay"},
     bus_type |-> [i \in 1..Len(df) |-> df[i].bus_type],
     passengers |-> [i \in 1..Len(df) |-> df[i].passengers],
     accident |-> [i \in 1..Len(df) |-> df[i].accident],
     delay |-> [i \in 1..Len(df) |-> df[i].delay]]

read_parquet(b) ==
    [i \in 1..b.num_rows |->
        [bus_type |-> b.bus_type[i], passengers |-> b.passengers[i],
         accident |-> b.accident[i], delay |-> b.delay[i]]]

(***************************************************************************)
(* Storage: partition file name -> parquet bytes                           *)
(***************************************************************************)
Files == DOMAIN store

\* A write that would add the new rows to the rows the file holds.
write_file_append(st, file, body) ==
    IF file \in DOMAIN st
    THEN (file :> to_parquet(read_parquet(st[file]) \o read_parquet(body))) @@ st
    ELSE (file :> body) @@ st

\* open(path, "wb") + write of the whole buffer: the file holds the new bytes
\* and nothing of what it held before.  The statements between opening and
\* closing the file contain no await, so no other task of the event loop runs
\* in between.
write_file(st, file, body) == (file :> body) @@ st

\* put_object(Bucket, Key, Body): the object under the key is the new body.
put_object(st, key, body) == (key :> body) @@ st

\* A unit that would return without writing when the frame is empty.
process_data_task_local_skip_empty(st, task, df) ==
    IF df = <<>>
    THEN st
    ELSE write_file(st,
                    PartitionFile(task.country, task.requested_date, task.city_id, task.city),
                    to_parquet(df))

\* The part of a unit after gather_city_data has returned: serialise the
\* frame, whatever its number of rows, and write it under the unit's key.
process_data_task_local(st, task, df) ==
    write_file(st,
               PartitionFile(task.country, task.requested_date, task.city_id, task.city),
               to_parquet(df))

\* The same with the object store (its client exists whenever RUN_LOCALLY
\* is off, so the guard on the client never raises).
process_data_task_s3(st, task, df) ==
    put_object(st,
               PartitionFile(task.country, task.requested_date, task.city_id, task.city),
               to_parquet(df))

\* partial(process_data_task_local, ...) if CONFIG.RUN_LOCALLY else
\* partial(process_data_task_s3, ...)
StoreAfterTask(st, task, df) ==
    IF RUN_LOCALLY
    THEN process_data_task_local(st, task, df)
    ELSE process_data_task_s3(st, task, df)

(***************************************************************************)
(* Reference server                                                        *)
(***************************************************************************)
\* GET /cities: one entry per key of CITIES, in key order.
get_cities ==
    [i \in 1..NumCities |->
        [id |-> i - 1, name |-> CITIES[i - 1].name, country |-> CITIES[i - 1].country]]

\* An answer in which the delay of one row parses and that of another row
\* does not.
MixedAnswer ==
    << [bus_type |-> "A", passengers |-> 10, accident |-> FALSE, delay |-> Text(PT10M)],
       [bus_type |-> "A", passengers |-> 5, accident |-> TRUE, delay |-> Text(Invalid)] >>

\* Answers of GET /cities/{id}/stats in ingestion runs.
Payloads == SeqsUpTo(RawRecords, MaxFetch) \cup {MixedAnswer}

(***************************************************************************)
(* POST /process-request                                                   *)
(***************************************************************************)
NoAck == [sent |-> FALSE, Processing |-> 0]

Idle ==
    [state |-> "idle", date |-> 0, ack |-> NoAck, tasks |-> <<>>, next |-> 0,
     stage |-> "none", df |-> <<>>]

\* A task list that would leave out the first city.
BackgroundTasksSkipFirst(requested_date, cities) ==
    [i \in 1..(Len(cities) - 1) |->
        [requested_date |-> requested_date, city_id |-> cities[i + 1].id,
         city |-> cities[i + 1].name, country |-> cities[i + 1].country]]

\* BackgroundTasks([BackgroundTask(processing_function, requested_date,
\* city["id"], city["name"], city["country"]) for city in cities])
BackgroundTasks(requested_date, cities) ==
    [i \in 1..Len(cities) |->
        [requested_date |-> requested_date, city_id |-> cities[i].id,
         city |-> cities[i].name, country |-> cities[i].country]]

\* A response whose content would be held back while tasks remain.
ResponseAfterTasks(content, background) ==
    [state |-> IF background = <<>> THEN "done" ELSE "background",
     date |-> content.Processing,
     ack |-> IF background = <<>>
             THEN [sent |-> TRUE, Processing |-> content.Processing]
             ELSE NoAck,
     tasks |-> background,
     next |-> IF background = <<>> THEN 0 ELSE 1,
     stage |-> IF background = <<>> THEN "none" ELSE "fetch",
     df |-> <<>>]

\* Response(content, background=...): the framework sends the content and
\* only then runs the background tasks, one after the other.
Response(content, background) ==
    [state |-> IF background = <<>> THEN "done" ELSE "background",
     date |-> content.Processing,
     ack |-> [sent |-> TRUE, Processing |-> content.Processing],
     tasks |-> background,
     next |-> IF background = <<>> THEN 0 ELSE 1,
     stage |-> IF background = <<>> THEN "none" ELSE "fetch",
     df |-> <<>>]

\* Requests are numbered in the order in which they arrive.
CanStart(r) ==
    /\ req[r].state = "idle"
    /\ IF r = 1 THEN TRUE ELSE req[r - 1].state # "idle"

process_request(r, requested_date) ==
    /\ CanStart(r)
    /\ req' = [req EXCEPT ![r] =
                 Response([Processing |-> requested_date],
                          BackgroundTasks(requested_date, get_cities))]
    /\ UNCHANGED <<RUN_LOCALLY, CITIES, store, reply>>

\* The call to /cities raises: the handler ends with an error, no
\* acknowledgement is built and no task is scheduled.
process_request_cities_error(r, requested_date) ==
    /\ CanStart(r)
    /\ req' = [req EXCEPT ![r] = [Idle EXCEPT !.state = "error", !.date = requested_date]]
    /\ UNCHANGED <<RUN_LOCALLY, CITIES, store, reply>>

(***************************************************************************)
(* One unit of work: process_data_task_local / process_data_task_s3        *)
(***************************************************************************)
Running(r, stage) == req[r].state = "background" /\ req[r].stage = stage

CurrentTask(r) == req[r].tasks[req[r].next]

\* An exception of a task leaves BackgroundTasks.__call__: the tasks after
\* it in the list are never awaited.
TaskRaises(r) == [req EXCEPT ![r].state = "crashed"]

\* The task returns: the loop awaits the next task of the list, if any.
TaskReturns(r) ==
    IF req[r].next = Len(req[r].tasks)
    THEN [req EXCEPT ![r].state = "done", ![r].stage = "none", ![r].df = <<>>]
    ELSE [req EXCEPT ![r].next = @ + 1, ![r].stage = "fetch", ![r].df = <<>>]

\* gather_city_data: the reference service answers with a JSON array.
fetch_ok(r, data) ==
    /\ Running(r, "fetch")
    /\ req' = [req EXCEPT ![r].stage = "write", ![r].df = gather_city_data(data)]
    /\ UNCHANGED <<RUN_LOCALLY, CITIES, store, reply>>

\* A failed fetch that would be stored as an answer without rows.
fetch_error_stored_empty(r) ==
    /\ Running(r, "fetch")
    /\ store' = StoreAfterTask(store, CurrentTask(r), <<>>)
    /\ req' = TaskRaises(r)
    /\ UNCHANGED <<RUN_LOCALLY, CITIES, reply>>

\* gather_city_data: the request or the decoding of its answer raises.
fetch_error(r) ==
    /\ Running(r, "fetch")
    /\ req' = TaskRaises(r)
    /\ UNCHANGED <<RUN_LOCALLY, CITIES, store, reply>>

\* to_parquet, mkdir and the write of the file (or put_object) succeed.
write_ok(r) ==
    /\ Running(r, "write")
    /\ ~ToParquetRaises(req[r].df)
    /\ store' = StoreAfterTask(store, CurrentTask(r), req[r].df)
    /\ req' = TaskReturns(r)
    /\ UNCHANGED <<RUN_LOCALLY, CITIES, reply>>

\* city_df.to_parquet raises: the unit ends before it opens its file.
to_parquet_error(r) ==
    /\ Running(r, "write")
    /\ ToParquetRaises(req[r].df)
    /\ req' = [TaskRaises(r) EXCEPT ![r].stage = "to_parquet"]
    /\ UNCHANGED <<RUN_LOCALLY, CITIES, store, reply>>

\* The frame is serialised and the storage backend refuses the write.
write_error(r) ==
    /\ Running(r, "write")
    /\ ~ToParquetRaises(req[r].df)
    /\ req' = TaskRaises(r)
    /\ UNCHANGED <<RUN_LOCALLY, CITIES, store, reply>>

(***************************************************************************)
(* Ingestion runs                                                          *)
(***************************************************************************)
NoReply == [op |-> "none"]

Init ==
    /\ RUN_LOCALLY \in BOOLEAN
    /\ CITIES \in [CityIds -> [name : CityNames, country : Countries]]
    /\ store = <<>>
    /\ req = [r \in Requests |-> Idle]
    /\ reply = NoReply

Next ==
    \/ \E r \in Requests, d \in Dates : process_request(r, d)
    \/ \E r \in Requests, d \in Dates : process_request_cities_error(r, d)
    \/ \E r \in Requests, data \in Payloads : fetch_ok(r, data)
    \/ \E r \in Requests : fetch_error(r)
    \/ \E r \in Requests : write_ok(r)
    \/ \E r \in Requests : to_parquet_error(r)
    \/ \E r \in Requests : write_error(r)

Spec == Init /\ [][Next]_vars

(***************************************************************************)
(* Aggregator: get_country_stats_local / get_country_stats_s3              *)
(***************************************************************************)
Absent == [kind |-> "empty"]
Raise(e) == [kind |-> "raise", error |-> e]

\* Orders in which a directory walk or an object listing may yield the files.
Orders(S) ==
    { o \in [1..Cardinality(S) -> S] : \A i, j \in DOMAIN o : i # j => o[i] # o[j] }

InSet(o, S) == SelectSeq(o, LAMBDA f : f \in S)

\* base_path.rglob("*/*.parquet") with base_path = local_path/country/date:
\* the .parquet files that lie in a directory below base_path.
rglob(country, d) ==
    LET base == country \o <<"/">> \o DateStr(d)
    IN  { f \in Files :
            /\ IsPrefix(base \o <<"/">>, f)
            /\ f[Len(f)] = "data.parquet"
            /\ \E i \in (Len(base) + 3)..(Len(f) - 1) : f[i] = "/" }

\* A listing whose prefix would be the country name alone.
list_objects_v2_country_only(country, d) ==
    { f \in Files : IsPrefix(country, f) }

\* list_objects_v2(Prefix=f"{country}/{requested_date}"): the keys that start
\* with the prefix, character by character.
list_objects_v2(country, d) ==
    { f \in Files : IsPrefix(country \o <<"/">> \o DateStr(d), f) }

RECURSIVE concat(_)
concat(data) == IF data = <<>> THEN <<>> ELSE Head(data) \o concat(Tail(data))

RECURSIVE sum(_)
sum(column) == IF column = <<>> THEN 0 ELSE Head(column) + sum(Tail(column))

nunique(column) == Cardinality({ column[i] : i \in DOMAIN column })

\* The distinct bus types counted city by city and added up.
NumberOfBusesPerCity(data) ==
    sum([k \in DOMAIN data |-> nunique([i \in DOMAIN data[k] |-> data[k][i].bus_type])])

\* country_wide_data["bus-type"].nunique()
NumberOfBuses(data) ==
    LET cw == concat(data) IN nunique([i \in DOMAIN cw |-> cw[i].bus_type])

\* country_wide_data["passengers"].sum()
TotalPassengers(data) ==
    LET cw == concat(data) IN sum([i \in DOMAIN cw |-> cw[i].passengers])

\* country_wide_data["accident"].sum()
TotalAccidents(data) ==
    LET cw == concat(data)
    IN  sum([i \in DOMAIN cw |-> IF cw[i].accident THEN 1 ELSE 0])

\* The mean of the per-city means, as the fraction num/den.
AverageDelayOfMeans(data) ==
    LET full == SelectSeq(data, LAMBDA df : df # <<>>)
        s(k) == sum([i \in DOMAIN full[k] |-> full[k][i].delay.secs])
        RECURSIVE prod(_, _)
        prod(k, skip) ==
            IF k > Len(full) THEN 1
            ELSE (IF k = skip THEN 1 ELSE Len(full[k])) * prod(k + 1, skip)
    IN  [num |-> sum([k \in DOMAIN full |-> s(k) * prod(1, k)]),
         den |-> Len(full) * prod(1, 0)]

\* country_wide_data["delay"].mean(): a float, kept as the fraction num/den.
AverageDelay(data) ==
    LET cw == concat(data)
    IN  [num |-> sum([i \in DOMAIN cw |-> cw[i].delay.secs]), den |-> Len(cw)]

\* The body of both functions once the files are listed, in the order files;
\* failing holds the files whose read raises (get_object or read_parquet).
\* Every file is read before the frames are put together.  A frame without
\* columns has no "bus-type" (KeyError); a delay column that holds strings
\* has no mean (TypeError).
country_stats_of(files, failing) ==
    LET data == [k \in DOMAIN files |-> read_parquet(store[files[k]])]
        cw == concat(data)
    IN  IF files = <<>> THEN Absent
        ELSE IF \E k \in DOMAIN files : files[k] \in failing THEN Raise("OSError")
        ELSE IF cw = <<>> THEN Raise("KeyError")
        ELSE IF \E i \in DOMAIN cw : ~cw[i].delay.isnum THEN Raise("TypeError")
        ELSE [kind |-> "summary",
              number_of_buses |-> NumberOfBuses(data),
              total_passengers |-> TotalPassengers(data),
              total_accidents |-> TotalAccidents(data),
              average_delay |-> AverageDelay(data)]

get_country_stats_local(country, d, order, failing) ==
    country_stats_of(InSet(order, rglob(country, d)), failing)

get_country_stats_s3(country, d, order, failing) ==
    country_stats_of(InSet(order, list_objects_v2(country, d)), failing)

\* partial(get_country_stats_local, ...) if CONFIG.RUN_LOCALLY else
\* partial(get_country_stats_s3, ...)
processing_function(country, d, order, failing) ==
    IF RUN_LOCALLY
    THEN get_country_stats_local(country, d, order, failing)
    ELSE get_country_stats_s3(country, d, order, failing)

\* Sets of files whose read may fail during one query.
ReadFailures == { F \in SUBSET Files : Cardinality(F) <= MaxReadErrors }

\* A direct call of the day aggregator of the configured backend.  A query
\* leaves the store as it is, so a run answers one query: a second one would
\* find what the first found.
stats_for_day(country, d) ==
    /\ reply = NoReply
    /\ \E order \in Orders(Files), failing \in ReadFailures :
         reply' = [op |-> "day", country |-> country, date |-> d, failing |-> failing,
                   result |-> processing_function(country, d, order, failing)]
    /\ UNCHANGED <<RUN_LOCALLY, CITIES, store, req>>

(***************************************************************************)
(* GET /country-stats                                                      *)
(***************************************************************************)
\* The name of the first directory (local) or common prefix (object store)
\* of a file name: what precedes its first "/".
TopLevel(f) ==
    SubSeq(f, 1, (CHOOSE i \in 1..Len(f) :
                    f[i] = "/" /\ \A j \in 1..(i - 1) : f[j] # "/") - 1)

\* (from_date + timedelta(days=n) for n in range((to_date - from_date).days + 1)):
\* no day at all when to_date lies before from_date.
RequestedDates(from_date, to_date) ==
    [n \in 1..((to_date - from_date) + 1) |-> from_date + (n - 1)]

\* The handler after the countries are listed (in the order countries): the
\* pairs are visited day by day and, within a day, country by country.  A call
\* of the day aggregator that raises ends the handler; otherwise every pair
\* gets an entry, whatever the call returned.  calls holds the pairs for which
\* the day aggregator was called.
country_stats_loop(from_date, to_date, countries, order, failing) ==
    LET days == RequestedDates(from_date, to_date)
        K == Len(countries)
        pairs == [k \in 1..(Len(days) * K) |->
                    [country |-> countries[((k - 1) % K) + 1],
                     date |-> days[((k - 1) \div K) + 1]]]
        results == [k \in DOMAIN pairs |->
                      processing_function(pairs[k].country, pairs[k].date, order, failing)]
        raising == { k \in DOMAIN pairs : results[k].kind = "raise" }
        first == CHOOSE k \in raising : \A j \in raising : k <= j
    IN  IF raising # {}
        THEN [kind |-> "raise", error |-> results[first].error,
              calls |-> SubSeq(pairs, 1, first)]
        ELSE [kind |-> "ok",
              body |-> [c \in { pairs[k].country : k \in DOMAIN pairs } |->
                          [ds \in { DateStr(pairs[k].date) : k \in DOMAIN pairs } |->
                              LET k == CHOOSE k \in DOMAIN pairs :
                                         pairs[k].country = c /\ DateStr(pairs[k].date) = ds
                              IN  results[k]]],
              calls |-> pairs]

\* The handler: the countries are the top-level names of the store; listing
\* a local root that no write has created raises.
country_stats_result(from_date, to_date, countries, order, failing) ==
    IF RUN_LOCALLY /\ Files = {}
    THEN [kind |-> "raise", error |-> "FileNotFoundError", calls |-> <<>>]
    ELSE country_stats_loop(from_date, to_date, countries, order, failing)

country_stats(from_date, to_date) ==
    /\ reply = NoReply
    /\ \E countries \in Orders({ TopLevel(f) : f \in Files }),
          order \in Orders(Files), failing \in ReadFailures :
         reply' = [op |-> "range", from_date |-> from_date, to_date |-> to_date,
                   failing |-> failing,
                   result |-> country_stats_result(from_date, to_date, countries,
                                                   order, failing)]
    /\ UNCHANGED <<RUN_LOCALLY, CITIES, store, req>>

(***************************************************************************)
(* Query runs: a store as ingestion can leave it, then queries             *)
(***************************************************************************)
AllFiles ==
    { PartitionFile(c, d, 0, n) : c \in Countries, d \in Dates, n \in CityNames }

\* Frames a unit can have written: to_parquet accepted them.
StoredFrames ==
    { gather_city_data(p) : p \in { q \in SeqsUpTo(RawRecords, MaxRecs) :
                                      ~ToParquetRaises(gather_city_data(q)) } }

InitQuery ==
    /\ RUN_LOCALLY \in BOOLEAN
    /\ CITIES = [id \in CityIds |-> [name |-> <<"x">>, country |-> <<"C">>]]
    /\ \E S \in { T \in SUBSET AllFiles : Cardinality(T) <= MaxParts } :
         \E frames \in [S -> StoredFrames] :
             store = [f \in S |-> to_parquet(frames[f])]
    /\ req = [r \in Requests |-> Idle]
    /\ reply = NoReply

NextQuery ==
    \/ \E c \in Countries, d \in Dates : stats_for_day(c, d)
    \/ \E from_date \in Dates, to_date \in Dates : country_stats(from_date, to_date)

SpecQuery == InitQuery /\ [][NextQuery]_vars

(***************************************************************************)
(* Conversion runs: one value of a "delay" field, then its conversion      *)
(***************************************************************************)
\* Numbers as they are written in a duration, with the values they stand for.
Literals ==
    { [text |-> <<"0">>, num |-> 0, den |-> 1],
      [text |-> <<"1">>, num |-> 1, den |-> 1],
      [text |-> <<"1", "0">>, num |-> 10, den |-> 1],
      [text |-> <<"3", "0">>, num |-> 30, den |-> 1],
      [text |-> <<"0", ".", "5">>, num |-> 5, den |-> 10],
      [text |-> <<"1", ",", "5">>, num |-> 15, den |-> 10] }

\* The designators of ISO 8601 in the order in which a duration lists them;
\* those from the fifth on follow the "T".
Designators == <<"Y", "M", "W", "D", "H", "M", "S">>

\* Durations of one to MaxComponents components (years of one digit keep
\* every sum within the integers of the model checker).
Durations ==
    { [sign |-> sg, comps |-> c] :
        sg \in {<<>>, <<"+">>, <<"-">>},
        c \in UNION { [S -> Literals] :
                        S \in { T \in SUBSET (1..7) :
                                  Cardinality(T) \in 1..MaxComponents } } }

RECURSIVE RenderFrom(_, _)
RenderFrom(comps, k) ==
    IF k > 7 THEN <<>>
    ELSE (IF k = 5 /\ DOMAIN comps \cap (5..7) # {} THEN <<"T">> ELSE <<>>)
         \o (IF k \in DOMAIN comps THEN comps[k].text \o <<Designators[k]>> ELSE <<>>)
         \o RenderFrom(comps, k + 1)

\* The text of a duration: PnYnMnWnDTnHnMnS with the absent components left
\* out, and the "T" written only before a time component.
Render(dur) == dur.sign \o <<"P">> \o RenderFrom(dur.comps, 1)

\* Strings that are no duration.
Malformed ==
    { Invalid, <<"P">>, <<"1", "0", "M">>, <<"T", "1", "0", "M">>,
      <<"P", "T", "1", "0", "X">>, <<"P", "1", "H">>, <<"P", "1">>,
      <<"P", "T", "1">>, <<"P", "T", "1", "M", "1", "H">>,
      <<"P", "1", "D", "1", "W">>, <<"P", "T", ".", "5", "S">>,
      <<"P", "T", "1", ".", "S">>, <<"p", "t", "1", "0", "m">>,
      <<"P", "T", "1", "0", "M", " ">>, <<" ", "P", "T", "1", "0", "M">>,
      <<"P", "-", "1", "D">>, <<"6", "0", "0">> }

\* Values a "delay" field can hold: a duration, another string, the empty
\* string, a number, null.
Arguments ==
    { [kind |-> "duration", dur |-> d, value |-> Text(Render(d))] :
        d \in { x \in Durations : 1 \in DOMAIN x.comps => x.comps[1].num < 10 * x.comps[1].den } }
    \cup { [kind |-> "malformed", dur |-> <<>>, value |-> Text(m)] : m \in Malformed }
    \cup { [kind |-> "passed", dur |-> <<>>, value |-> v] :
             v \in {Text(<<>>), None, Secs(123), Secs(0)} }

InitDuration ==
    /\ RUN_LOCALLY = TRUE
    /\ CITIES = [id \in CityIds |-> [name |-> <<"x">>, country |-> <<"C">>]]
    /\ store = <<>>
    /\ req = [r \in Requests |-> Idle]
    /\ \E a \in Arguments : reply = [op |-> "argument", arg |-> a]

\* city_df["delay"].apply(iso_duration_to_seconds) on one cell.
apply_iso_duration_to_seconds ==
    /\ reply.op = "argument"
    /\ reply' = [op |-> "duration", arg |-> reply.arg,
                 result |-> iso_duration_to_seconds(reply.arg.value)]
    /\ UNCHANGED <<RUN_LOCALLY, CITIES, store, req>>

NextDuration == apply_iso_duration_to_seconds

SpecDuration == InitDuration /\ [][NextDuration]_vars

(***************************************************************************)
(* Properties of ingestion                                                 *)
(***************************************************************************)
TaskFile(task) ==
    PartitionFile(task.country, task.requested_date, task.city_id, task.city)

Scheduled(r) == req[r].state \in {"background", "done", "crashed"}

\* The unit of request r that is at its write stage returns in this step.
UnitCompletes(r) ==
    /\ Running(r, "write")
    /\ \/ req'[r].state = "done"
       \/ req'[r].state = "background" /\ req'[r].next = req[r].next + 1

\* Partitions stored for date d, whatever the country and the city.
FilesOfDate(d) ==
    { f \in Files : \E c \in Countries : IsPrefix(c \o <<"/">> \o DateStr(d) \o <<"/">>, f) }

\* C1: when one unit of an ingest has failed, every other unit of that
\* ingest has still run to completion: its partition exists once the ingest
\* has come to its end.
C1_OtherUnitsComplete ==
    \A r \in Requests :
        req[r].state = "crashed" =>
            \A i \in 1..Len(req[r].tasks) :
                i # req[r].next => TaskFile(req[r].tasks[i]) \in Files

\* C6: an ingest schedules exactly one unit per entry of the city list, in
\* number K, each with the requested date and the entry's own id, name and
\* country.
C6_OneUnitPerCity ==
    \A r \in Requests :
        Scheduled(r) =>
            /\ Len(req[r].tasks) = NumCities
            /\ \A id \in CityIds :
                 Cardinality({ i \in 1..Len(req[r].tasks) : req[r].tasks[i].city_id = id }) = 1
            /\ \A i \in 1..Len(req[r].tasks) :
                 LET t == req[r].tasks[i]
                 IN  /\ t.city_id \in CityIds
                     /\ t.requested_date = req[r].ack.Processing
                     /\ t.city = CITIES[t.city_id].name
                     /\ t.country = CITIES[t.city_id].country

C6_Witness ==
    \E r \in Requests :
        /\ req[r].state = "background"
        /\ Len(req[r].tasks) = NumCities
        /\ req[r].tasks[1].country # req[r].tasks[NumCities].country

\* C7: the acknowledgement {"Processing": date} has been sent before the
\* first unit has done anything, and it stays what it was whatever becomes of
\* the units.
C7_AckFirst ==
    \A r \in Requests :
        Scheduled(r) => req[r].ack = [sent |-> TRUE, Processing |-> req[r].date]

C7_AckBeforeUnits ==
    /\ []C7_AckFirst
    /\ [][\A r \in Requests : req[r].ack.sent => req'[r].ack = req[r].ack]_vars

C7_Witness ==
    \E r, q \in Requests :
        /\ req[r].state = "crashed" /\ req[r].ack.sent
        /\ req[q].state = "done" /\ req[q].ack.sent

\* C8: a partition changes only by the write of a unit, and after a unit's
\* write its partition holds exactly the rows of that unit: nothing of what
\* the file held before, nothing of another unit.
C8_WholesaleReplace ==
    [][ /\ \A r \in Requests :
             UnitCompletes(r) =>
                 /\ TaskFile(CurrentTask(r)) \in DOMAIN store'
                 /\ read_parquet(store'[TaskFile(CurrentTask(r))]) = req[r].df
        /\ \A f \in DOMAIN store' :
             (f \notin DOMAIN store \/ store'[f] # store[f]) =>
                 \E r \in Requests : UnitCompletes(r) /\ f = TaskFile(CurrentTask(r))
        /\ DOMAIN store \subseteq DOMAIN store'
      ]_vars

\* Two overlapping ingests of one date: the second has overtaken the first,
\* which is about to replace a partition holding other rows.
C8_Witness ==
    /\ MaxRequests >= 2
    /\ req[1].date = req[2].date
    /\ req[2].state = "done"
    /\ Running(1, "write")
    /\ TaskFile(CurrentTask(1)) \in Files
    /\ read_parquet(store[TaskFile(CurrentTask(1))]) # <<>>
    /\ req[1].df # <<>>
    /\ read_parquet(store[TaskFile(CurrentTask(1))]) # req[1].df

\* C9: the units of two different cities of one ingest write to different
\* partition keys, and when all units have completed the date holds as many
\* partitions as there are cities.
C9_DistinctKeys ==
    \A r \in Requests :
        /\ Scheduled(r) =>
             \A i, j \in 1..Len(req[r].tasks) :
                 req[r].tasks[i].city_id # req[r].tasks[j].city_id =>
                     TaskFile(req[r].tasks[i]) # TaskFile(req[r].tasks[j])
        /\ req[r].state = "done" =>
             Cardinality(FilesOfDate(req[r].date)) = Len(req[r].tasks)

\* C10: a unit whose fetch gave zero rows still writes its partition, with
\* zero rows; a key no unit has written has no partition.
C10_EmptyPartitionWritten ==
    [][\A r \in Requests :
          (UnitCompletes(r) /\ req[r].df = <<>>) =>
              /\ TaskFile(CurrentTask(r)) \in DOMAIN store'
              /\ store'[TaskFile(CurrentTask(r))].num_rows = 0
              /\ read_parquet(store'[TaskFile(CurrentTask(r))]) = <<>>
      ]_vars

C10_Witness ==
    /\ \E f \in Files : store[f].num_rows = 0
    /\ \E r \in Requests :
         /\ req[r].state = "done"
         /\ \E d \in Dates : d # req[r].date /\ FilesOfDate(d) = {}

\* C11: a unit whose fetched rows include a delay that did not parse, and
\* whose storage backend does not refuse the write, returns and leaves at its
\* key a partition that holds the fetched rows: the unparsed delays as the
\* strings they were, the other delays as their seconds.
C11_UnparsableDelayStored ==
    [][\A r \in Requests :
          (/\ Running(r, "write")
           /\ \E i \in DOMAIN req[r].df : ~req[r].df[i].delay.isnum
           /\ req'[r] # req[r]
           /\ ~(req'[r].state = "crashed" /\ req'[r].stage = "write")) =>
              /\ UnitCompletes(r)
              /\ TaskFile(CurrentTask(r)) \in DOMAIN store'
              /\ read_parquet(store'[TaskFile(CurrentTask(r))]) = req[r].df
      ]_vars

\* C18: the step in which the fetch of a unit fails writes nothing, so the
\* partition at the unit's key and every other partition are what they were,
\* and the unit takes no further step: it neither fetches again nor writes.
C18_FailedFetchWritesNothing ==
    [][\A r \in Requests :
          /\ (Running(r, "fetch") /\ req'[r].state = "crashed") => store' = store
          /\ (req[r].state = "crashed" /\ req[r].stage = "fetch") => req'[r] = req[r]
      ]_vars

\* A unit has failed at its fetch while its key holds the rows that an
\* earlier ingest wrote there.
C18_Witness ==
    \E r \in Requests :
        /\ req[r].state = "crashed"
        /\ req[r].stage = "fetch"
        /\ TaskFile(CurrentTask(r)) \in Files
        /\ store[TaskFile(CurrentTask(r))].num_rows > 0

(***************************************************************************)
(* Properties of aggregation                                               *)
(***************************************************************************)
\* The partitions stored under (country, date), by their keys.
PartitionsOf(country, d) ==
    { f \in Files : \E n \in CityNames : f = PartitionFile(country, d, 0, n) }

RECURSIVE SumOver(_, _)
SumOver(fn, S) ==
    IF S = {} THEN 0
    ELSE LET x == CHOOSE y \in S : TRUE IN fn[x] + SumOver(fn, S \ {x})

\* Totals over the stored columns of a set of partitions.
RecordCount(P) == SumOver([f \in P |-> store[f].num_rows], P)
DelayTotal(P) ==
    SumOver([f \in P |->
               SumOver([i \in 1..store[f].num_rows |-> store[f].delay[i].secs],
                       1..store[f].num_rows)], P)
PassengerTotal(P) ==
    SumOver([f \in P |->
               SumOver([i \in 1..store[f].num_rows |-> store[f].passengers[i]],
                       1..store[f].num_rows)], P)
AccidentTotal(P) ==
    SumOver([f \in P |->
               Cardinality({ i \in 1..store[f].num_rows : store[f].accident[i] })], P)
BusTypes(P) ==
    UNION { { store[f].bus_type[i] : i \in 1..store[f].num_rows } : f \in P }
AllNumeric(P) ==
    \A f \in P : \A i \in 1..store[f].num_rows : store[f].delay[i].isnum

\* C2: a range result holds no entry for a (country, date) pair that has no
\* partition: the date key is missing from the country's mapping.
C2_SparseRange ==
    (reply.op = "range" /\ reply.result.kind = "ok") =>
        \A c \in DOMAIN reply.result.body :
            \A d \in Dates :
                PartitionsOf(c, d) = {} => DateStr(d) \notin DOMAIN reply.result.body[c]

\* C3: the day aggregator of either backend returns the empty result {},
\* and no Summary, for a (country, date) under which no partition is stored,
\* whatever is stored under other keys.
C3_AbsentWithoutPartitions ==
    (reply.op = "day" /\ PartitionsOf(reply.country, reply.date) = {}) =>
        reply.result = Absent

\* The object store holds a key that starts with the name of the queried
\* country, under another date or another country, and none of the pair.
C3_Witness ==
    /\ reply.op = "day"
    /\ ~RUN_LOCALLY
    /\ PartitionsOf(reply.country, reply.date) = {}
    /\ \E f \in Files : IsPrefix(reply.country, f) /\ TopLevel(f) # reply.country
    /\ reply.result = Absent

\* C4: average_delay is the sum of the delays of all rows of all partitions
\* of the pair divided by the number of those rows, and a Summary is what is
\* returned whenever the partitions hold at least one row and only numeric
\* delays and every one of them is read.
C4_PooledMean ==
    reply.op = "day" =>
        LET P == PartitionsOf(reply.country, reply.date)
        IN  /\ reply.result.kind = "summary" =>
                 /\ reply.result.average_delay.den > 0
                 /\ reply.result.average_delay.num * RecordCount(P)
                        = DelayTotal(P) * reply.result.average_delay.den
            /\ (RecordCount(P) > 0 /\ AllNumeric(P) /\ reply.failing \cap P = {}) =>
                 reply.result.kind = "summary"

\* Partitions of 1 and 3 rows whose mean of means differs from the pooled
\* mean: (s1/1 + s2/3)/2 # (s1 + s2)/4, that is 3*s1 # s2.
C4_Witness ==
    /\ reply.op = "day"
    /\ reply.result.kind = "summary"
    /\ \E f, g \in PartitionsOf(reply.country, reply.date) :
         /\ PartitionsOf(reply.country, reply.date) = {f, g}
         /\ store[f].num_rows = 1
         /\ store[g].num_rows = 3
         /\ 3 * DelayTotal({f}) # DelayTotal({g})

\* C5: number_of_buses is the number of distinct bus types over the rows of
\* all partitions of the pair, total_passengers the sum of their passengers,
\* total_accidents the number of rows with an accident, in whatever order the
\* partitions are listed.
C5_Totals ==
    (reply.op = "day" /\ reply.result.kind = "summary") =>
        LET P == PartitionsOf(reply.country, reply.date)
        IN  /\ reply.result.number_of_buses = Cardinality(BusTypes(P))
            /\ reply.result.total_passengers = PassengerTotal(P)
            /\ reply.result.total_accidents = AccidentTotal(P)

\* Two cities share a bus type, which is counted once.
C5_Witness ==
    /\ reply.op = "day"
    /\ reply.result.kind = "summary"
    /\ \E f, g \in PartitionsOf(reply.country, reply.date) :
         /\ f # g
         /\ BusTypes({f}) \cap BusTypes({g}) # {}
         /\ BusTypes({f}) # BusTypes({g})
         /\ reply.result.number_of_buses = 2
         /\ reply.result.total_accidents > 0

\* The countries present in the store and the pairs of a range.
StoredCountries == { TopLevel(f) : f \in Files }
InRange(d) == reply.from_date <= d /\ d <= reply.to_date

\* C13: a range query whose from_date lies after its to_date is refused as an
\* invalid request before the day aggregator is called for any pair, and
\* gives no result mapping.
C13_ReversedRangeRejected ==
    (reply.op = "range" /\ reply.from_date > reply.to_date) =>
        /\ reply.result.kind = "raise"
        /\ reply.result.calls = <<>>

\* C14: a range query with from_date <= to_date on a store that holds
\* nothing, its root never created, returns the empty mapping.
C14_NothingIngestedEmptyMapping ==
    (reply.op = "range" /\ reply.from_date <= reply.to_date /\ Files = {}) =>
        /\ reply.result.kind = "ok"
        /\ DOMAIN reply.result.body = {}

\* C15: when the read of a partition fails during a range query over a store
\* of partitions that all hold rows and numeric delays, the query still
\* returns its mapping, and every pair of the range whose partitions are all
\* read has its Summary in it.
C15_ReadErrorConfined ==
    \A c \in StoredCountries, d \in Dates :
        (/\ reply.op = "range"
         /\ reply.from_date <= reply.to_date
         /\ reply.failing # {}
         /\ AllNumeric(Files)
         /\ \A f \in Files : store[f].num_rows > 0
         /\ InRange(d)
         /\ PartitionsOf(c, d) # {}
         /\ PartitionsOf(c, d) \cap reply.failing = {}) =>
            /\ reply.result.kind = "ok"
            /\ c \in DOMAIN reply.result.body
            /\ DateStr(d) \in DOMAIN reply.result.body[c]
            /\ reply.result.body[c][DateStr(d)].kind = "summary"

\* C16: a range query with from_date <= to_date calls the day aggregator
\* once for every pair of a stored country and a day from from_date to
\* to_date, both included, and for no other pair; the keys of its result are
\* stored countries and days of the range.  (Stated for queries whose reads
\* all succeed on stores whose delays are all numbers.)
C16_EveryPairOnce ==
    (/\ reply.op = "range"
     /\ reply.from_date <= reply.to_date
     /\ reply.failing = {}
     /\ AllNumeric(Files)) =>
        LET calls == reply.result.calls
        IN  /\ \A c \in StoredCountries, d \in Dates :
                 InRange(d) =>
                     Cardinality({ i \in DOMAIN calls :
                                     calls[i] = [country |-> c, date |-> d] }) = 1
            /\ \A i \in DOMAIN calls :
                 calls[i].country \in StoredCountries /\ InRange(calls[i].date)
            /\ Len(calls) = Cardinality(StoredCountries)
                                * ((reply.to_date - reply.from_date) + 1)
            /\ reply.result.kind = "ok" =>
                 /\ DOMAIN reply.result.body \subseteq StoredCountries
                 /\ \A c \in DOMAIN reply.result.body :
                      DOMAIN reply.result.body[c]
                          \subseteq { DateStr(d) : d \in { x \in Dates : InRange(x) } }

\* C17: the day aggregator does not raise for a pair under which only
\* partitions without rows are stored, and neither does a range query that
\* covers such a pair (the reads succeed and the delays stored elsewhere are
\* numbers).
C17_EmptyPartitionsNoError ==
    /\ (/\ reply.op = "day"
        /\ reply.failing = {}
        /\ PartitionsOf(reply.country, reply.date) # {}
        /\ RecordCount(PartitionsOf(reply.country, reply.date)) = 0) =>
           reply.result.kind # "raise"
    /\ (/\ reply.op = "range"
        /\ reply.from_date <= reply.to_date
        /\ reply.failing = {}
        /\ AllNumeric(Files)
        /\ \E c \in StoredCountries, d \in Dates :
             /\ InRange(d)
             /\ PartitionsOf(c, d) # {}
             /\ RecordCount(PartitionsOf(c, d)) = 0) =>
           reply.result.kind # "raise"

(***************************************************************************)
(* Properties of the conversion                                            *)
(***************************************************************************)
\* The seconds of one unit of each designator: a year has 365 or 366 days,
\* a month 28 to 31.
LeastSeconds == <<31536000, 2419200, 604800, 86400, 3600, 60, 1>>
MostSeconds == <<31622400, 2678400, 604800, 86400, 3600, 60, 1>>

\* Ten times the seconds of a duration without its sign.
TenthsOf(dur, seconds) ==
    SumOver([k \in DOMAIN dur.comps |->
               dur.comps[k].num * (10 \div dur.comps[k].den) * seconds[k]],
            DOMAIN dur.comps)

\* C12: iso_duration_to_seconds gives back a value that is no string, the
\* empty string and a string that is no duration, and gives for a duration
\* the integer that is its number of seconds with the fraction cut off.
C12_DurationContract ==
    reply.op = "duration" =>
        LET a == reply.arg
        IN  /\ a.kind \in {"passed", "malformed"} => reply.result = a.value
            /\ a.kind = "duration" =>
                 /\ reply.result.isnum
                 /\ LET s == IF a.dur.sign = <<"-">> THEN 0 - reply.result.secs
                             ELSE reply.result.secs
                    IN  /\ TenthsOf(a.dur, LeastSeconds) \div 10 <= s
                        /\ s <= TenthsOf(a.dur, MostSeconds) \div 10

====
